---- MODULE Spec2Model ----
(***************************************************************************)
(* A model of ipgeocheck (src/ipgeocheck.py): a capture is read, the IPv4  *)
(* source/destination addresses are extracted, the globally routable,      *)
(* non-multicast ones are resolved to a country by `whois` in a            *)
(* multiprocessing pool, and the per-role country distribution is printed. *)
(*                                                                         *)
(* Text is modelled as a sequence of one-character strings, so that        *)
(* str.lower, str.startswith, str.split and str.strip are computed as      *)
(* Python computes them.  An IPv4 address is its four octets.              *)
(***************************************************************************)
EXTENDS Integers, Sequences, FiniteSets, TLC

VARIABLES
    capture,      \* the packets held by the capture file, in order
    packages,     \* the --packages option: None or Some(n)
    pc,           \* position of main(), or of the unit under test
    packets,      \* what rdpcap returned
    source,       \* df["src"]
    dest,         \* df["dest"]
    addrs,        \* the set handed to pool.map
    cpus,         \* what os.cpu_count() returned
    av_cores,     \* the pool's worker count
    chunks,       \* pool.map's task batches, in queue order
    next_chunk,   \* index of the first batch no worker has taken yet
    running,      \* indexes of the batches a worker is executing
    cpos,         \* per batch: how many of its items have been run
    pool_error,   \* TRUE once a batch has ended with an exception
    calls,        \* per address: the number of get_country_by_ip calls
    bad_lookups,  \* addresses whose lookup raised or yielded no country
    res,          \* the (ip, country) tuples the workers returned
    mapping,      \* the address -> country dict
    src_country,  \* df["src_country"]
    dest_country, \* df["dest_country"]
    inc,          \* rows of the source table
    outc,         \* rows of the destination table
    ip_arg,       \* unit run of get_country_by_ip: its argument
    run_arg,      \* unit run of get_country_by_ip: what whois does
    ret           \* unit run of get_country_by_ip: its outcome

vars == <<capture, packages, pc, packets, source, dest, addrs, cpus, av_cores,
          chunks, next_chunk, running, cpos, pool_error, calls, bad_lookups,
          res, mapping, src_country, dest_country, inc, outc,
          ip_arg, run_arg, ret>>

(***************************************************************************)
(* Bounds of the model.                                                    *)
(***************************************************************************)
MaxPackets == 2       \* packets per capture, over the mixed address pool
MaxCap == 1           \* largest value of --packages
MaxWidePackets == 5   \* packets of a capture whose addresses are all distinct
MaxFailures == 1      \* failing lookups per run
MaxLines == 2         \* lines of a whois answer in the unit runs
MaxCpus == 64         \* largest CPU count in the unit runs

(***************************************************************************)
(* Optional values, and the two ways a Python call ends.                   *)
(***************************************************************************)
None == [k |-> "None"]
Some(v) == [k |-> "Some", v |-> v]
NaN == [k |-> "NaN"]

Raised == [raised |-> TRUE]
Returned(v) == [raised |-> FALSE, value |-> v]

Min(a, b) == IF a <= b THEN a ELSE b

(***************************************************************************)
(* Text.                                                                   *)
(***************************************************************************)
SP == " "
TAB == "\t"
CR == "\r"
NL == "\n"
BAD == "0xFF"    \* a byte that is not valid UTF-8

Whitespace == {SP, TAB, CR, NL}

UpperToLower ==
    [ch \in {"C", "O", "U", "N", "T", "R", "Y"} |->
        CASE ch = "C" -> "c" [] ch = "O" -> "o" [] ch = "U" -> "u"
          [] ch = "N" -> "n" [] ch = "T" -> "t" [] ch = "R" -> "r"
          [] ch = "Y" -> "y"]

\* str.lower(), on the letters that decide the comparison with "country"
Lower(s) ==
    [i \in 1..Len(s) |->
        IF s[i] \in DOMAIN UpperToLower THEN UpperToLower[s[i]] ELSE s[i]]

\* str.startswith(prefix)
StartsWith(s, prefix) ==
    /\ Len(s) >= Len(prefix)
    /\ SubSeq(s, 1, Len(prefix)) = prefix

\* str.split(sep) for a one-character separator: never an empty list
RECURSIVE SplitAt(_, _)
SplitAt(s, sep) ==
    IF \A i \in 1..Len(s) : s[i] # sep
    THEN <<s>>
    ELSE LET i == CHOOSE j \in 1..Len(s) :
                      /\ s[j] = sep
                      /\ \A h \in 1..(j - 1) : s[h] # sep
         IN <<SubSeq(s, 1, i - 1)>> \o SplitAt(SubSeq(s, i + 1, Len(s)), sep)

\* str.strip(): whitespace off both ends
RECURSIVE Strip(_)
Strip(s) ==
    IF s = <<>> THEN s
    ELSE IF s[1] \in Whitespace THEN Strip(Tail(s))
    ELSE IF s[Len(s)] \in Whitespace THEN Strip(SubSeq(s, 1, Len(s) - 1))
    ELSE s

\* bytes.decode("utf-8"): UnicodeDecodeError on an invalid byte
Decode(bytes) ==
    IF \E i \in 1..Len(bytes) : bytes[i] = BAD THEN Raised ELSE Returned(bytes)

Country == <<"c", "o", "u", "n", "t", "r", "y">>

(***************************************************************************)
(* get_country_by_ip.  `run` is what subprocess.run(["whois", ip]) does:   *)
(* launch = FALSE when the program cannot be started (OSError), otherwise  *)
(* the exit status and the bytes written to stdout.  The exit status is    *)
(* not read by the code.                                                   *)
(***************************************************************************)
\* lambda x: x.lower().startswith("country")
IsCountryLine(x) == StartsWith(Lower(x), Country)

\* list(filter(IsCountryLine, result))
RECURSIVE CountryLines(_)
CountryLines(result) ==
    IF result = <<>> THEN <<>>
    ELSE (IF IsCountryLine(Head(result)) THEN <<Head(result)>> ELSE <<>>)
         \o CountryLines(Tail(result))

\* country[-1].split(" ")[-1].strip()
LastField(country) ==
    LET line == country[Len(country)]
        parts == SplitAt(line, SP)
    IN Strip(parts[Len(parts)])

get_country_by_ip(ip, run) ==
    IF ~run.launch THEN Raised
    ELSE LET text == Decode(run.stdout)
         IN IF text.raised THEN Raised
            ELSE LET result == SplitAt(text.value, NL)
                     country == CountryLines(result)
                 IN IF country # <<>>
                    THEN Returned(<<ip, Some(LastField(country))>>)
                    ELSE Returned(<<ip, None>>)

(***************************************************************************)
(* Whois answers used as inputs.                                           *)
(***************************************************************************)
T_us == <<"c", "o", "u", "n", "t", "r", "y", ":", " ", "U", "S">>
T_au == <<"c", "o", "u", "n", "t", "r", "y", ":", " ", "A", "U">>
T_pad == <<"C", "o", "u", "n", "t", "r", "y", ":", " ", " ", " ", "D", "E">>
T_upper == <<"C", "O", "U", "N", "T", "R", "Y", ":", " ", "J", "P", "\r">>
T_tab == <<"c", "o", "u", "n", "t", "r", "y", ":", "\t", "F", "R">>
T_trail == <<"c", "o", "u", "n", "t", "r", "y", ":", " ", "G", "B", " ">>
T_word == <<"c", "o", "u", "n", "t", "r", "y", "s", "i", "d", "e", " ", "X">>
T_name == <<"n", "e", "t", "n", "a", "m", "e", ":", " ", "X">>
T_bad == <<"d", "e", "s", "c", "r", ":", " ", "0xFF">>

AnswerLines == {T_us, T_pad, T_upper, T_tab, T_trail, T_word, T_name, T_bad, <<>>}

\* "\n".join(lines)
RECURSIVE JoinLines(_)
JoinLines(ls) ==
    IF ls = <<>> THEN <<>>
    ELSE IF Len(ls) = 1 THEN ls[1]
    ELSE ls[1] \o <<NL>> \o JoinLines(Tail(ls))

SeqsUpTo(S, n) == UNION {[1..m -> S] : m \in 0..n}

AnswerTexts == {JoinLines(ls) : ls \in SeqsUpTo(AnswerLines, MaxLines)}

WhoisRun(launch, returncode, stdout) ==
    [launch |-> launch, returncode |-> returncode, stdout |-> stdout]

UnitRuns ==
    {WhoisRun(l, rc, t) : l \in BOOLEAN, rc \in {0, 1}, t \in AnswerTexts}

(***************************************************************************)
(* Addresses: ipaddress.IPv4Address, as its four octets.                   *)
(***************************************************************************)
\* IPv4Address.is_private: membership in the special-purpose networks
is_private(a) ==
    \/ a[1] = 0
    \/ a[1] = 10
    \/ a[1] = 127
    \/ a[1] = 169 /\ a[2] = 254
    \/ a[1] = 172 /\ a[2] \in 16..31
    \/ a[1] = 192 /\ a[2] = 0 /\ a[3] = 0 /\ a[4] \in (0..7) \cup {170, 171}
    \/ a[1] = 192 /\ a[2] = 0 /\ a[3] = 2
    \/ a[1] = 192 /\ a[2] = 168
    \/ a[1] = 198 /\ a[2] \in 18..19
    \/ a[1] = 198 /\ a[2] = 51 /\ a[3] = 100
    \/ a[1] = 203 /\ a[2] = 0 /\ a[3] = 113
    \/ a[1] >= 240

\* IPv4Address.is_global: not in 100.64.0.0/10 and not private
is_global(a) == ~(a[1] = 100 /\ a[2] \in 64..127) /\ ~is_private(a)

\* IPv4Address.is_multicast: 224.0.0.0/4
is_multicast(a) == a[1] \in 224..239

A_dns == <<8, 8, 8, 8>>
A_cf == <<1, 1, 1, 1>>
A_priv == <<10, 0, 0, 5>>
A_mcast == <<224, 0, 0, 1>>

MixedAddrs == {A_dns, A_cf, A_priv, A_mcast}

WideAddr(k) == <<9, 9, 9, k>>

\* lexicographic order on octets
Before(a, b) ==
    \E i \in 1..4 : a[i] < b[i] /\ \A j \in 1..(i - 1) : a[j] = b[j]

(***************************************************************************)
(* Captures.  A packet either carries an IP layer or does not.             *)
(***************************************************************************)
IPPacket(s, d) == [ip |-> TRUE, src |-> s, dst |-> d]
OtherPacket == [ip |-> FALSE, src |-> <<0, 0, 0, 0>>, dst |-> <<0, 0, 0, 0>>]

MixedPackets == {IPPacket(s, d) : s \in MixedAddrs, d \in MixedAddrs} \cup {OtherPacket}

MixedCaptures == SeqsUpTo(MixedPackets, MaxPackets)

WideCapture(n) == [i \in 1..n |-> IPPacket(WideAddr(2 * i - 1), WideAddr(2 * i))]

WideCaptures == {WideCapture(MaxWidePackets)}

PackageOptions == {None} \cup {Some(n) : n \in (-1)..MaxCap}

(***************************************************************************)
(* What whois may do for an address during a run.  The registry's record   *)
(* for an address is fixed; the lookup may also answer without a country   *)
(* line, exit non-zero with or without the record, write bytes that are    *)
(* not UTF-8, or fail to start.                                            *)
(***************************************************************************)
RegistryRecord(ip) == IF ip[1] = 1 THEN T_au ELSE T_us

WhoisRuns(ip) ==
    {WhoisRun(TRUE, 0, RegistryRecord(ip)),
     WhoisRun(TRUE, 1, RegistryRecord(ip)),
     WhoisRun(TRUE, 0, T_name),
     WhoisRun(TRUE, 1, <<>>),
     WhoisRun(TRUE, 0, T_bad),
     WhoisRun(FALSE, 1, <<>>)}

\* a lookup that raised or produced no country
IsBad(r) == r.raised \/ r.value[2] = None

(***************************************************************************)
(* main(), lines 64-73: read the capture and extract the address pairs.    *)
(***************************************************************************)
\* scapy's rdpcap(file, count): reads packets while count # 0, counting down
Rdpcap(file, count) ==
    IF count >= 0 THEN SubSeq(file, 1, Min(count, Len(file))) ELSE file

\* Python truthiness of the --packages option
Truthy(opt) == opt # None /\ opt.v # 0

ReadPackets(file, opt) ==
    IF Truthy(opt) THEN Rdpcap(file, opt.v) ELSE Rdpcap(file, -1)

\* [f(a) for a in packets if sc.IP in a]
RECURSIVE WithIP(_)
WithIP(ps) ==
    IF ps = <<>> THEN <<>>
    ELSE (IF Head(ps).ip THEN <<Head(ps)>> ELSE <<>>) \o WithIP(Tail(ps))

Extract ==
    /\ pc = "start"
    /\ packets' = ReadPackets(capture, packages)
    /\ source' = [i \in 1..Len(WithIP(packets')) |-> WithIP(packets')[i].src]
    /\ dest' = [i \in 1..Len(WithIP(packets')) |-> WithIP(packets')[i].dst]
    /\ pc' = "extracted"
    /\ UNCHANGED <<capture, packages, addrs, cpus, av_cores, chunks, next_chunk,
                   running, cpos, pool_error, calls, bad_lookups, res, mapping,
                   src_country, dest_country, inc, outc, ip_arg, run_arg, ret>>

(***************************************************************************)
(* main(), lines 75-87: the addresses worth a lookup.                      *)
(***************************************************************************)
\* variant: the multicast column is left out of the selection
ValidGlobalOnly(a) == is_global(a)

\* (df["src_global"]) & (df["src_not_multicast"])
Valid(a) == is_global(a) /\ ~is_multicast(a)

Classify ==
    /\ pc = "extracted"
    /\ LET src_valid == {source[i] : i \in {j \in 1..Len(source) : Valid(source[j])}}
           dest_valid == {dest[i] : i \in {j \in 1..Len(dest) : Valid(dest[j])}}
       IN addrs' = src_valid \cup dest_valid
    /\ pc' = "classified"
    /\ UNCHANGED <<capture, packages, packets, source, dest, cpus, av_cores, chunks,
                   next_chunk, running, cpos, pool_error, calls, bad_lookups, res,
                   mapping, src_country, dest_country, inc, outc, ip_arg, run_arg, ret>>

(***************************************************************************)
(* main(), lines 95-102: the pool and pool.map.                            *)
(*                                                                         *)
(* multiprocessing.Pool.map cuts the iterable into batches of              *)
(* ceil(len / (4 * workers)) items, queues them in order, and returns      *)
(* when every batch has ended.  A worker runs the items of a batch one     *)
(* after the other; an exception ends the batch, its remaining items are   *)
(* not run, and map re-raises it once all batches have ended.              *)
(***************************************************************************)
\* variant: the threshold is off by one
CoresFromThree(c) == IF c >= 3 THEN c - 2 ELSE 2

\* lines 95-99
Cores(c) == IF c >= 4 THEN c - 2 ELSE 2

\* os.cpu_count() of the host running the pipeline
PoolCpus == {2}

ChunkSize(n, workers) ==
    IF n = 0 THEN 0
    ELSE (n \div (workers * 4)) + (IF n % (workers * 4) # 0 THEN 1 ELSE 0)

RECURSIVE GetTasks(_, _)
GetTasks(items, size) ==
    IF items = <<>> THEN <<>>
    ELSE <<SubSeq(items, 1, Min(size, Len(items)))>>
         \o GetTasks(SubSeq(items, Min(size, Len(items)) + 1, Len(items)), size)

\* Iteration orders of a set: the order is unspecified; the model takes the
\* ascending and the descending one.
RECURSIVE Ascending(_)
Ascending(S) ==
    IF S = {} THEN <<>>
    ELSE LET m == CHOOSE x \in S : \A y \in S : ~Before(y, x)
         IN <<m>> \o Ascending(S \ {m})

Reverse(s) == [i \in 1..Len(s) |-> s[Len(s) + 1 - i]]

Orders(S) == {Ascending(S), Reverse(Ascending(S))}

CreatePool ==
    /\ pc = "classified"
    /\ \E c \in PoolCpus, order \in Orders(addrs) :
          /\ cpus' = c
          /\ av_cores' = Cores(c)
          /\ chunks' = GetTasks(order, ChunkSize(Len(order), Cores(c)))
    /\ next_chunk' = 1
    /\ running' = {}
    /\ cpos' = [i \in 1..Len(chunks') |-> 0]
    /\ pc' = "map"
    /\ UNCHANGED <<capture, packages, packets, source, dest, addrs, pool_error,
                   calls, bad_lookups, res, mapping, src_country, dest_country,
                   inc, outc, ip_arg, run_arg, ret>>

\* an idle worker takes the next batch off the queue
TakeChunk ==
    /\ pc = "map"
    /\ next_chunk <= Len(chunks)
    /\ Cardinality(running) < av_cores
    /\ running' = running \cup {next_chunk}
    /\ next_chunk' = next_chunk + 1
    /\ UNCHANGED <<capture, packages, pc, packets, source, dest, addrs, cpus,
                   av_cores, chunks, cpos, pool_error, calls, bad_lookups, res,
                   mapping, src_country, dest_country, inc, outc, ip_arg, run_arg, ret>>

\* a worker runs the next item of its batch; at most MaxFailures lookups of a
\* run raise or come back without a country
RunTask(i) ==
    /\ pc = "map"
    /\ i \in running
    /\ LET ip == chunks[i][cpos[i] + 1]
       IN \E run \in WhoisRuns(ip) :
             LET r == get_country_by_ip(ip, run)
             IN /\ IsBad(r) => Cardinality(bad_lookups) < MaxFailures
                /\ calls' = [calls EXCEPT ![ip] = @ + 1]
                /\ bad_lookups' = IF IsBad(r) THEN bad_lookups \cup {ip} ELSE bad_lookups
                /\ IF r.raised
                   THEN /\ pool_error' = TRUE
                        /\ running' = running \ {i}
                        /\ UNCHANGED <<res, cpos>>
                   ELSE /\ res' = res \cup {r.value}
                        /\ cpos' = [cpos EXCEPT ![i] = @ + 1]
                        /\ running' = IF cpos[i] + 1 = Len(chunks[i])
                                      THEN running \ {i} ELSE running
                        /\ UNCHANGED pool_error
    /\ UNCHANGED <<capture, packages, pc, packets, source, dest, addrs, cpus,
                   av_cores, chunks, next_chunk, mapping, src_country, dest_country,
                   inc, outc, ip_arg, run_arg, ret>>

\* variant: map returns as soon as no batch is left on the queue
AllTaken == next_chunk > Len(chunks)

\* every batch has been taken and has ended
AllDone == next_chunk > Len(chunks) /\ running = {}

\* pool.map returns; line 103 builds the dict
MapReturn ==
    /\ pc = "map"
    /\ AllDone
    /\ ~pool_error
    /\ mapping' = [a \in {i[1] : i \in res} |-> (CHOOSE i \in res : i[1] = a)[2]]
    /\ pc' = "mapped"
    /\ UNCHANGED <<capture, packages, packets, source, dest, addrs, cpus, av_cores,
                   chunks, next_chunk, running, cpos, pool_error, calls, bad_lookups,
                   res, src_country, dest_country, inc, outc, ip_arg, run_arg, ret>>

\* pool.map re-raises a worker's exception; nothing in main() catches it
MapRaise ==
    /\ pc = "map"
    /\ AllDone
    /\ pool_error
    /\ pc' = "aborted"
    /\ UNCHANGED <<capture, packages, packets, source, dest, addrs, cpus, av_cores,
                   chunks, next_chunk, running, cpos, pool_error, calls, bad_lookups,
                   res, mapping, src_country, dest_country, inc, outc, ip_arg,
                   run_arg, ret>>

(***************************************************************************)
(* main(), lines 107-111: the country of every source and destination.     *)
(***************************************************************************)
LOCAL_ == <<"L", "O", "C", "A", "L">>

\* Series.map(dict): the dict's value, NaN for a key the dict lacks
MapValue(m, a) == IF a \in DOMAIN m THEN m[a] ELSE NaN

\* variant: only keys the dict lacks are filled, a None country is kept
FillNaMissingOnly(v) == IF v.k = "NaN" THEN LOCAL_ ELSE IF v.k = "None" THEN <<>> ELSE v.v

\* Series.fillna("LOCAL"): None and NaN are both missing values
FillNa(v) == IF v.k \in {"None", "NaN"} THEN LOCAL_ ELSE v.v

Attribute ==
    /\ pc = "mapped"
    /\ src_country' = [i \in 1..Len(source) |-> FillNa(MapValue(mapping, source[i]))]
    /\ dest_country' = [i \in 1..Len(dest) |-> FillNa(MapValue(mapping, dest[i]))]
    /\ pc' = "attributed"
    /\ UNCHANGED <<capture, packages, packets, source, dest, addrs, cpus, av_cores,
                   chunks, next_chunk, running, cpos, pool_error, calls, bad_lookups,
                   res, mapping, inc, outc, ip_arg, run_arg, ret>>

(***************************************************************************)
(* main(), lines 113-128: the two tables.  A percentage is kept as the     *)
(* exact fraction num / den instead of a float.  The rows of a table are   *)
(* kept as a set: their order among equal counts is unspecified.           *)
(***************************************************************************)
\* Series.value_counts(): the distinct values with their counts
ValueCounts(col) ==
    {[country |-> c, count |-> Cardinality({i \in 1..Len(col) : col[i] = c})] :
        c \in {col[i] : i \in 1..Len(col)}}

\* count / df.shape[0] * 100
Percent(count, rows) == [num |-> count * 100, den |-> rows]

\* variant: the LOCAL pairs are left out of the table
RowsResolvedOnly(col, rows) ==
    {[country |-> vc.country, pct |-> Percent(vc.count, rows)] :
        vc \in {x \in ValueCounts(col) : x.country # LOCAL_}}

\* one row per value: (country, count / df.shape[0] * 100)
Rows(col, rows) ==
    {[country |-> vc.country, pct |-> Percent(vc.count, rows)] : vc \in ValueCounts(col)}

Report ==
    /\ pc = "attributed"
    /\ inc' = Rows(src_country, Len(source))
    /\ outc' = Rows(dest_country, Len(source))
    /\ pc' = "done"
    /\ UNCHANGED <<capture, packages, packets, source, dest, addrs, cpus, av_cores,
                   chunks, next_chunk, running, cpos, pool_error, calls, bad_lookups,
                   res, mapping, src_country, dest_country, ip_arg, run_arg, ret>>

(***************************************************************************)
(* The run of the program.                                                 *)
(***************************************************************************)
NoAddr == <<0, 0, 0, 0>>
NoRun == WhoisRun(FALSE, 0, <<>>)

\* The capture is either any capture of up to MaxPackets packets over the
\* mixed addresses, with any --packages option, or the capture of
\* MaxWidePackets packets whose addresses are all distinct and public, read
\* without a cap.
Init ==
    /\ \/ capture \in MixedCaptures /\ packages \in PackageOptions
       \/ capture \in WideCaptures /\ packages = None
    /\ pc = "start"
    /\ packets = <<>>
    /\ source = <<>>
    /\ dest = <<>>
    /\ addrs = {}
    /\ cpus = 0
    /\ av_cores = 0
    /\ chunks = <<>>
    /\ next_chunk = 1
    /\ running = {}
    /\ cpos = <<>>
    /\ pool_error = FALSE
    /\ calls = [a \in MixedAddrs \cup {WideAddr(k) : k \in 1..(2 * MaxWidePackets)} |-> 0]
    /\ bad_lookups = {}
    /\ res = {}
    /\ mapping = <<>>
    /\ src_country = <<>>
    /\ dest_country = <<>>
    /\ inc = {}
    /\ outc = {}
    /\ ip_arg = NoAddr
    /\ run_arg = NoRun
    /\ ret = Raised

Next ==
    \/ Extract
    \/ Classify
    \/ CreatePool
    \/ TakeChunk
    \/ \E i \in 1..Len(chunks) : RunTask(i)
    \/ MapReturn
    \/ MapRaise
    \/ Attribute
    \/ Report

Spec == Init /\ [][Next]_vars

(***************************************************************************)
(* get_country_by_ip on its own: one call per whois behaviour.             *)
(***************************************************************************)
InitResolver ==
    /\ capture = <<>>
    /\ packages = None
    /\ pc = "resolver_call"
    /\ packets = <<>>
    /\ source = <<>>
    /\ dest = <<>>
    /\ addrs = {}
    /\ cpus = 0
    /\ av_cores = 0
    /\ chunks = <<>>
    /\ next_chunk = 1
    /\ running = {}
    /\ cpos = <<>>
    /\ pool_error = FALSE
    /\ calls = <<>>
    /\ bad_lookups = {}
    /\ res = {}
    /\ mapping = <<>>
    /\ src_country = <<>>
    /\ dest_country = <<>>
    /\ inc = {}
    /\ outc = {}
    /\ ip_arg \in {A_dns, A_cf}
    /\ run_arg \in UnitRuns
    /\ ret = Raised

ResolverCall ==
    /\ pc = "resolver_call"
    /\ ret' = get_country_by_ip(ip_arg, run_arg)
    /\ pc' = "resolver_returned"
    /\ UNCHANGED <<capture, packages, packets, source, dest, addrs, cpus, av_cores,
                   chunks, next_chunk, running, cpos, pool_error, calls, bad_lookups,
                   res, mapping, src_country, dest_country, inc, outc, ip_arg, run_arg>>

SpecResolver == InitResolver /\ [][ResolverCall]_vars

(***************************************************************************)
(* The worker count on its own: lines 95-99 for every CPU count.           *)
(***************************************************************************)
InitCores ==
    /\ capture = <<>>
    /\ packages = None
    /\ pc = "cores_call"
    /\ packets = <<>>
    /\ source = <<>>
    /\ dest = <<>>
    /\ addrs = {}
    /\ cpus \in 1..MaxCpus
    /\ av_cores = 0
    /\ chunks = <<>>
    /\ next_chunk = 1
    /\ running = {}
    /\ cpos = <<>>
    /\ pool_error = FALSE
    /\ calls = <<>>
    /\ bad_lookups = {}
    /\ res = {}
    /\ mapping = <<>>
    /\ src_country = <<>>
    /\ dest_country = <<>>
    /\ inc = {}
    /\ outc = {}
    /\ ip_arg = NoAddr
    /\ run_arg = NoRun
    /\ ret = Raised

CoresCall ==
    /\ pc = "cores_call"
    /\ av_cores' = Cores(cpus)
    /\ pc' = "cores_returned"
    /\ UNCHANGED <<capture, packages, packets, source, dest, addrs, cpus, chunks,
                   next_chunk, running, cpos, pool_error, calls, bad_lookups, res,
                   mapping, src_country, dest_country, inc, outc, ip_arg, run_arg, ret>>

SpecCores == InitCores /\ [][CoresCall]_vars

(***************************************************************************)
(* Vocabulary of the properties.                                           *)
(***************************************************************************)
Max(a, b) == IF a >= b THEN a ELSE b

Pairs == Len(source)

Observed == {source[i] : i \in 1..Len(source)} \cup {dest[i] : i \in 1..Len(dest)}

EligibleObserved == {a \in Observed : is_global(a) /\ ~is_multicast(a)}

Built == pc \in {"mapped", "attributed", "done"}

MapEnded == pc \in {"mapped", "attributed", "done", "aborted"}

\* the country a lookup of `a` yields when nothing goes wrong
RegistryCountry(a) == get_country_by_ip(a, WhoisRun(TRUE, 0, RegistryRecord(a))).value[2]

\* the category of an address, read off the map
Category(a) ==
    IF a \in DOMAIN mapping /\ mapping[a].k = "Some" THEN mapping[a].v ELSE LOCAL_

CountIn(col, c) == Cardinality({i \in 1..Len(col) : col[i] = c})

RECURSIVE SumNum(_)
SumNum(rows) ==
    IF rows = {} THEN 0
    ELSE LET r == CHOOSE x \in rows : TRUE IN r.pct.num + SumNum(rows \ {r})

\* the percentages of a table add up to 100
SumsTo100(rows) ==
    /\ rows # {}
    /\ \E d \in {r.pct.den : r \in rows} :
          /\ d > 0
          /\ \A r \in rows : r.pct.den = d
          /\ SumNum(rows) = 100 * d

Letters == {"c", "o", "u", "n", "t", "r", "y", "s", "i", "d", "e", "a", "m",
            "C", "O", "U", "N", "T", "R", "Y", "S", "D", "E", "F", "G", "B",
            "J", "P", "L", "A", "X"}

\* str.split() without a separator: the runs of non-whitespace
RECURSIVE Tokens(_)
Tokens(s) ==
    IF s = <<>> THEN <<>>
    ELSE IF s[1] \in Whitespace THEN Tokens(Tail(s))
    ELSE LET stop == IF \E j \in 1..Len(s) : s[j] \in Whitespace
                     THEN (CHOOSE j \in 1..Len(s) :
                              /\ s[j] \in Whitespace
                              /\ \A h \in 1..(j - 1) : s[h] \notin Whitespace) - 1
                     ELSE Len(s)
         IN <<SubSeq(s, 1, stop)>> \o Tokens(SubSeq(s, stop + 1, Len(s)))

\* the first token is the word "country", in any case, with or without
\* punctuation after it
FirstTokenIsCountry(line) ==
    /\ Tokens(line) # <<>>
    /\ LET t == Lower(Tokens(line)[1])
       IN /\ StartsWith(t, Country)
          /\ Len(t) > Len(Country) => t[Len(Country) + 1] \notin Letters

RECURSIVE LastMatching(_)
LastMatching(lines) ==
    IF lines = <<>> THEN None
    ELSE IF FirstTokenIsCountry(lines[Len(lines)])
         THEN Some(Tokens(lines[Len(lines)])[Len(Tokens(lines[Len(lines)]))])
         ELSE LastMatching(SubSeq(lines, 1, Len(lines) - 1))

(***************************************************************************)
(* C1.  Soft-failure containment: when the lookup of exactly one address   *)
(* fails (it raises or yields no country), the run does not abort, every   *)
(* role carrying that address is attributed to LOCAL, and every other      *)
(* address has the country its lookup yields.                              *)
(***************************************************************************)
C1_SoftFailureContained ==
    (MapEnded /\ Cardinality(bad_lookups) = 1) =>
        /\ pc # "aborted"
        /\ pc = "done" =>
              /\ \A i \in 1..Len(source) :
                    source[i] \in bad_lookups => src_country[i] = LOCAL_
              /\ \A i \in 1..Len(dest) :
                    dest[i] \in bad_lookups => dest_country[i] = LOCAL_
              /\ \A a \in addrs \ bad_lookups : mapping[a] = RegistryCountry(a)

(***************************************************************************)
(* C2.  The resolver never raises, and returns country None whenever the   *)
(* lookup cannot be started, exits non-zero, or prints no country line.    *)
(***************************************************************************)
C2_ResolverSoftFails ==
    pc = "resolver_returned" =>
        /\ ~ret.raised
        /\ (\/ ~run_arg.launch
            \/ run_arg.returncode # 0
            \/ LastMatching(SplitAt(run_arg.stdout, NL)) = None)
           => ret.value[2] = None

(***************************************************************************)
(* C3.  Exactly-once resolution: no address is ever resolved twice, and    *)
(* once pool.map has ended every eligible observed address has been        *)
(* resolved exactly once.                                                  *)
(***************************************************************************)
C3_ExactlyOnce ==
    /\ \A a \in DOMAIN calls : calls[a] <= 1
    /\ MapEnded => \A a \in EligibleObserved : calls[a] = 1

(***************************************************************************)
(* C4.  Eligibility gating and map coverage: the addresses handed to the   *)
(* pool, the addresses resolved and the keys of the map are the observed   *)
(* addresses that are global and not multicast, and no others.             *)
(***************************************************************************)
C4_Gating ==
    /\ pc \notin {"start", "extracted"} => addrs = EligibleObserved
    /\ pc \in {"map", "mapped", "attributed", "done", "aborted"} =>
          /\ UNION {{chunks[i][j] : j \in 1..Len(chunks[i])} : i \in 1..Len(chunks)}
                = EligibleObserved
          /\ \A a \in DOMAIN calls : calls[a] > 0 => a \in EligibleObserved
    /\ Built => DOMAIN mapping = EligibleObserved

C4_Witness ==
    /\ pc = "mapped"
    /\ A_mcast \in Observed
    /\ A_priv \in Observed
    /\ A_dns \in DOMAIN mapping

(***************************************************************************)
(* C5.  Country extraction: the resolver returns the last whitespace-      *)
(* delimited token of the last line whose first token is "country" in any  *)
(* case, and None when no line matches.                                    *)
(***************************************************************************)
C5_Extraction ==
    (pc = "resolver_returned" /\ ~ret.raised) =>
        ret.value[2] = LastMatching(SplitAt(run_arg.stdout, NL))

(***************************************************************************)
(* C6.  Per-pair attribution: in each role a pair is attributed to the     *)
(* country the map holds for its address, and to LOCAL when the address    *)
(* is no key of the map or its lookup yielded no country; a table has one  *)
(* row per attributed category, and its percentage is the number of pairs  *)
(* attributed to it in that role over the number of all pairs, times 100.  *)
(***************************************************************************)
RowsMatch(rows, col) ==
    /\ {r.country : r \in rows} = {col[i] : i \in 1..Len(col)}
    /\ \A r \in rows :
          /\ r.pct.den # 0
          /\ r.pct.num * Pairs = 100 * CountIn(col, r.country) * r.pct.den

C6_Attribution ==
    /\ pc \in {"attributed", "done"} =>
          /\ src_country = [i \in 1..Pairs |-> Category(source[i])]
          /\ dest_country = [i \in 1..Pairs |-> Category(dest[i])]
    /\ pc = "done" =>
          /\ RowsMatch(inc, [i \in 1..Pairs |-> Category(source[i])])
          /\ RowsMatch(outc, [i \in 1..Pairs |-> Category(dest[i])])

C6_Witness ==
    /\ pc = "done"
    /\ \E i \in 1..Pairs : source[i] \notin DOMAIN mapping
    /\ \E i \in 1..Pairs : source[i] \in DOMAIN mapping /\ mapping[source[i]] = None
    /\ \E r \in outc : r.country # LOCAL_ /\ r.pct.num = 100 /\ r.pct.den = 2

(***************************************************************************)
(* C7 as stated.  In every finished run, also one with no IPv4 pair, the   *)
(* percentages of each role add up to 100.                                 *)
(***************************************************************************)
C7_AlwaysSumsTo100 ==
    pc = "done" => SumsTo100(inc) /\ SumsTo100(outc)

(***************************************************************************)
(* C7, amended.  In every finished run the per-category counts of each     *)
(* role add up to the number of pairs; the percentages of each role add    *)
(* up to 100 when there is at least one pair, and a run with no pair has   *)
(* no rows.                                                                *)
(***************************************************************************)
C7_Totals ==
    pc = "done" =>
        /\ \A r \in inc \cup outc : r.pct.den = Pairs
        /\ SumNum(inc) = 100 * Pairs
        /\ SumNum(outc) = 100 * Pairs
        /\ Pairs > 0 => SumsTo100(inc) /\ SumsTo100(outc)
        /\ Pairs = 0 => inc = {} /\ outc = {}

C7_Witness ==
    /\ pc = "done"
    /\ Pairs = 2
    /\ addrs = {}
    /\ inc = {[country |-> LOCAL_, pct |-> [num |-> 200, den |-> 2]]}

(***************************************************************************)
(* C8.  Worker count: max(2, c - 2) workers for a CPU count c >= 4 and 2   *)
(* otherwise, so never fewer than 2; 8 gives 6, 2 gives 2 and 4 gives 2.   *)
(***************************************************************************)
C8_Workers ==
    pc = "cores_returned" =>
        /\ av_cores = (IF cpus >= 4 THEN Max(2, cpus - 2) ELSE 2)
        /\ av_cores >= 2
        /\ cpus = 8 => av_cores = 6
        /\ cpus = 2 => av_cores = 2
        /\ cpus = 4 => av_cores = 2

C8_Witness == pc = "cores_returned" /\ cpus = 8 /\ av_cores = 6

(***************************************************************************)
(* C9.  Packet cap: with a cap N >= 0 given, exactly the first N packets   *)
(* of the capture are read; without a cap, all of them.                    *)
(***************************************************************************)
C9_PacketCap ==
    pc # "start" =>
        /\ packages = None => packets = capture
        /\ (packages # None /\ packages.v >= 0) =>
              packets = SubSeq(capture, 1, Min(packages.v, Len(capture)))

(***************************************************************************)
(* C10.  Resolution barrier: the map exists only once every dispatched     *)
(* resolution has completed, and then holds every result; attribution and  *)
(* the tables are empty until the map exists; once built, the map never    *)
(* changes.                                                                *)
(***************************************************************************)
Completed ==
    /\ running = {}
    /\ \A i \in 1..Len(chunks) : cpos[i] = Len(chunks[i])
    /\ \A a \in addrs : calls[a] = 1 /\ \E r \in res : r[1] = a

C10_Barrier ==
    /\ [](Built => Completed /\ mapping = [a \in addrs |-> (CHOOSE r \in res : r[1] = a)[2]])
    /\ [](~Built => /\ mapping = <<>>
                    /\ src_country = <<>> /\ dest_country = <<>>
                    /\ inc = {} /\ outc = {})
    /\ [][Built => mapping' = mapping]_vars

C10_Witness ==
    /\ pc = "done"
    /\ Cardinality(DOMAIN mapping) = 2 * MaxWidePackets

====
